---- MODULE Spec2Model ----
(***************************************************************************)
(* A model of puran-water/adm1-mcp: the pH / alkalinity annotation of a    *)
(* stream (calculate_ph_and_alkalinity_fixed.py).                          *)
(*                                                                         *)
(* The program computes in IEEE binary64.  The model computes in a decimal *)
(* floating point of the same size: 16 significant digits, exponents to    *)
(* 10^308, round-half-even, overflow to infinity, NaN.  A finite number is *)
(* a sign, a coefficient of exactly 16 digits and the power of ten of its  *)
(* last digit.  TLC's integers are 32 bits wide, so the coefficient is     *)
(* kept in limbs of four digits.                                           *)
(***************************************************************************)
EXTENDS Integers, Sequences, FiniteSets, TLC

\* With([v \in {e} |-> body]) is body with the local variable v assigned
\* the value of e, computed once
With(f) == f[CHOOSE x \in DOMAIN f : TRUE]

(* ------------------------------------------------------------------ *)
(* Wide naturals: tuples of ten limbs, base 10^4, lowest limb first.   *)
(* Every operator is a closed formula over the limbs, so that its     *)
(* evaluation does not nest.                                          *)
(* ------------------------------------------------------------------ *)
Base == 10^4

Tup(F(_)) == <<F(1), F(2), F(3), F(4), F(5), F(6), F(7), F(8), F(9), F(10)>>

Limbs == 1..10

At(x, i) == IF i >= 1 /\ i <= 10 THEN x[i] ELSE 0

WZero == Tup(LAMBDA i : 0)

\* the wide natural of an integer 0 <= n < 2^31
WNat(n) == Tup(LAMBDA i : IF i = 1 THEN n % Base
                          ELSE IF i = 2 THEN (n \div Base) % Base
                          ELSE IF i = 3 THEN n \div (Base * Base) ELSE 0)

\* Columns c, each below 2 * Base - 1, to limbs: a carry enters limb i when a
\* lower column overflows and every column between is Base - 1.
CarryIn(c, i) ==
  \E j \in 1..(i - 1) : c[j] >= Base /\ \A l \in (j + 1)..(i - 1) : c[l] = Base - 1

Ripple(c) == Tup(LAMBDA i : (c[i] + (IF CarryIn(c, i) THEN 1 ELSE 0)) % Base)

\* one pass of carries over columns below 2^31
Squeeze(c) == Tup(LAMBDA i : (c[i] % Base) + (At(c, i - 1) \div Base))

Norm(c) == Ripple(Squeeze(Squeeze(c)))

WAdd(x, y) == Ripple(Tup(LAMBDA i : x[i] + y[i]))

\* x - y for x >= y: a borrow enters limb i when a lower difference is
\* negative and every difference between is zero
BorrowIn(d, i) ==
  \E j \in 1..(i - 1) : d[j] < 0 /\ \A l \in (j + 1)..(i - 1) : d[l] = 0

WDiff(d) ==
  Tup(LAMBDA i : (d[i] - (IF BorrowIn(d, i) THEN 1 ELSE 0) + Base) % Base)

WSub(x, y) == WDiff(Tup(LAMBDA i : x[i] - y[i]))

\* -1, 0, 1 as x < y, x = y, x > y
WCmp(x, y) ==
  IF x = y THEN 0
  ELSE IF \E i \in Limbs : x[i] < y[i] /\ \A j \in (i + 1)..10 : x[j] = y[j]
  THEN -1 ELSE 1

DigitsOfLimb(v) ==
  IF v >= 1000 THEN 4 ELSE IF v >= 100 THEN 3 ELSE IF v >= 10 THEN 2
  ELSE IF v >= 1 THEN 1 ELSE 0

\* the number of decimal digits of x (0 for zero)
WDigits(x) ==
  IF x = WZero THEN 0
  ELSE With([t \in {CHOOSE i \in Limbs : x[i] # 0 /\ \A j \in (i + 1)..10 : x[j] = 0} |-> 4 * (t - 1) + DigitsOfLimb(x[t])])

Pow10Small(r) == 10^r

\* x * 10^d
WShl(x, d) ==
  LET j == d \div 4
      r == d % 4
  IN  Tup(LAMBDA i : (At(x, i - j) % Pow10Small(4 - r)) * Pow10Small(r)
                     + At(x, i - j - 1) \div Pow10Small(4 - r))

\* x div 10^d
WShr(x, d) ==
  LET j == d \div 4
      r == d % 4
  IN  Tup(LAMBDA i : At(x, i + j) \div Pow10Small(r)
                     + (At(x, i + j + 1) % Pow10Small(r)) * Pow10Small(4 - r))

\* whether x mod 10^d is nonzero
WSticky(x, d) ==
  \E i \in Limbs : \/ i <= d \div 4 /\ x[i] # 0
                   \/ i = d \div 4 + 1 /\ x[i] % Pow10Small(d % 4) # 0

\* x * k for 0 <= k <= Base
WMulSmall(x, k) == Norm(Tup(LAMBDA i : x[i] * k))

\* x * y for x, y < 10^16
WMul(x, y) ==
  Norm(Tup(LAMBDA k : x[1] * At(y, k) + x[2] * At(y, k - 1)
                      + x[3] * At(y, k - 2) + x[4] * At(y, k - 3)))

\* One step of long division by b, 10^15 <= b < 10^16: the quotient limb and
\* the remainder of rem * Base + limb, for rem < b.  The quotient of the two
\* top limbs by b[4] + 1 never exceeds the quotient limb; twice taken, it is
\* at most one short.
Reduce(R, b, est) == [q |-> est, r |-> WSub(R, WMulSmall(b, est))]

Estimate(R, b) == (R[5] * Base + R[4]) \div (b[4] + 1)

DivStep(rem, limb, b) ==
  With([R0 \in {Tup(LAMBDA i : IF i = 1 THEN limb ELSE rem[i - 1])} |->
  With([s1 \in {Reduce(R0, b, Estimate(R0, b))} |->
  With([s2 \in {Reduce(s1.r, b, Estimate(s1.r, b))} |->
  With([c \in {WCmp(s2.r, b) >= 0} |->
    [q |-> s1.q + s2.q + (IF c THEN 1 ELSE 0),
     r |-> IF c THEN WSub(s2.r, b) ELSE s2.r]])])])])

\* <<a div b, whether a mod b is nonzero>> for a < 10^36 and
\* 10^15 <= b < 10^16, by long division from limb 6 of a down
RECURSIVE LongDiv(_, _, _, _)
LongDiv(a, b, i, st) ==
  IF i = 0 THEN st
  ELSE LongDiv(a, b, i - 1,
               With([step \in {DivStep(st.r, a[i], b)} |->
                 [q |-> [st.q EXCEPT ![i] = step.q], r |-> step.r]]))

WDiv(a, b) ==
  With([d \in {LongDiv(a, b, 6, [q |-> WZero, r |-> WShr(a, 24)])} |->
    <<d.q, d.r # WZero>>])

(* ------------------------------------------------------------------ *)
(* Floats: [k |-> "fin" | "inf" | "nan", s |-> sign bit, e, m].       *)
(* A finite value is (-1)^s * m * 10^e, m a 16-digit wide natural     *)
(* (or zero).  Python's float and numpy's float64, which the program  *)
(* computes in, are modelled by this type.                            *)
(* ------------------------------------------------------------------ *)
Prec == 4 * 4
EMax == 308
EMin == 0 - 323

FZero == [k |-> "fin", s |-> 0, e |-> 0, m |-> WZero]
FNaN  == [k |-> "nan", s |-> 0, e |-> 0, m |-> WZero]
FInf(s) == [k |-> "inf", s |-> s, e |-> 0, m |-> WZero]

IsNaN(a)    == a.k = "nan"
IsInf(a)    == a.k = "inf"
IsFinite(a) == a.k = "fin"
IsZero(a)   == a.k = "fin" /\ a.m = WZero

\* The float of sign s, coefficient w and exponent e, if it is in range
Ranged(s, w, e) ==
  IF e + Prec - 1 > EMax THEN FInf(s)
  ELSE IF e + Prec - 1 < EMin THEN FZero
  ELSE [k |-> "fin", s |-> s, e |-> e, m |-> w]

\* The float nearest to (-1)^s * (w + a fraction, nonzero iff sticky) * 10^e:
\* round half to even at 16 digits, overflow to infinity, underflow to zero.
RoundUp(dg, rest, q) == dg > 5 \/ (dg = 5 /\ (rest \/ q[1] % 2 = 1))

Round(s, w, e, sticky) ==
  With([L \in {WDigits(w)} |->
    IF L = 0 THEN FZero
    ELSE IF L <= Prec THEN Ranged(s, WShl(w, Prec - L), e - (Prec - L))
    ELSE With([sh \in {WShr(w, L - Prec - 1)} |->
         With([q \in {WShr(sh, 1)} |->
         With([q1 \in {IF RoundUp(sh[1] % 10, sticky \/ WSticky(w, L - Prec - 1), q)
              THEN WAdd(q, WNat(1)) ELSE q} |->
           IF WDigits(q1) > Prec THEN Ranged(s, WShr(q1, 1), e + (L - Prec) + 1)
           ELSE Ranged(s, q1, e + (L - Prec))])])])])

\* n * 10^e for an integer n
Num(n, e) ==
  Round(IF n < 0 THEN 1 ELSE 0, WNat(IF n < 0 THEN 0 - n ELSE n), e, FALSE)

\* the 16-digit decimal d1 d2 d3 d4 (four digits each) times 10^e
Dec(d1, d2, d3, d4, e) ==
  Round(0, Tup(LAMBDA i : IF i = 1 THEN d4 ELSE IF i = 2 THEN d3
                          ELSE IF i = 3 THEN d2 ELSE IF i = 4 THEN d1 ELSE 0),
        e, FALSE)

FNeg(a) == IF a.k = "nan" \/ IsZero(a) THEN a ELSE [a EXCEPT !.s = 1 - a.s]
FAbs(a) == IF a.k = "nan" THEN a ELSE [a EXCEPT !.s = 0]

\* -1, 0, 1 comparing the magnitudes of two finite floats
CmpMag(a, b) ==
  IF IsZero(a) THEN (IF IsZero(b) THEN 0 ELSE -1)
  ELSE IF IsZero(b) THEN 1
  ELSE IF a.e < b.e THEN -1
  ELSE IF a.e > b.e THEN 1
  ELSE WCmp(a.m, b.m)

\* -1, 0, 1 comparing two floats that are not NaN
Cmp(a, b) ==
  IF a.k = "inf" \/ b.k = "inf"
  THEN LET va == IF a.k = "inf" THEN (IF a.s = 1 THEN -2 ELSE 2) ELSE 0
           vb == IF b.k = "inf" THEN (IF b.s = 1 THEN -2 ELSE 2) ELSE 0
       IN  IF va < vb THEN -1 ELSE IF va > vb THEN 1 ELSE 0
  ELSE IF a.s # b.s
  THEN (IF IsZero(a) /\ IsZero(b) THEN 0 ELSE IF a.s = 1 THEN -1 ELSE 1)
  ELSE IF a.s = 0 THEN CmpMag(a, b) ELSE CmpMag(b, a)

\* IEEE comparisons: every comparison with NaN is false
FLt(a, b) == ~IsNaN(a) /\ ~IsNaN(b) /\ Cmp(a, b) < 0
FGt(a, b) == FLt(b, a)
FLe(a, b) == ~IsNaN(a) /\ ~IsNaN(b) /\ Cmp(a, b) <= 0
FGe(a, b) == FLe(b, a)
FEq(a, b) == ~IsNaN(a) /\ ~IsNaN(b) /\ Cmp(a, b) = 0
FNe(a, b) == ~FEq(a, b)
SignBit(a) == a.s = 1

\* hi + lo for finite nonzero floats, hi.e >= lo.e
Aligned(hi, lo) ==
  IF hi.e - lo.e > Prec + 4 THEN hi
  ELSE With([wh \in {WShl(hi.m, hi.e - lo.e)} |->
       With([c \in {WCmp(wh, lo.m)} |->
         IF hi.s # lo.s /\ c = 0 THEN FZero
         ELSE Round(IF hi.s = lo.s \/ c > 0 THEN hi.s ELSE lo.s,
                    IF hi.s = lo.s THEN WAdd(wh, lo.m)
                    ELSE IF c > 0 THEN WSub(wh, lo.m) ELSE WSub(lo.m, wh),
                    lo.e, FALSE)])])

FAdd(a, b) ==
  IF IsNaN(a) \/ IsNaN(b) THEN FNaN
  ELSE IF IsInf(a) THEN (IF IsInf(b) /\ a.s # b.s THEN FNaN ELSE a)
  ELSE IF IsInf(b) THEN b
  ELSE IF IsZero(a) THEN b
  ELSE IF IsZero(b) THEN a
  ELSE Aligned(IF a.e >= b.e THEN a ELSE b, IF a.e >= b.e THEN b ELSE a)

FSub(a, b) == FAdd(a, FNeg(b))

Xor(s, t) == IF s = t THEN 0 ELSE 1

FMul(a, b) ==
  IF IsNaN(a) \/ IsNaN(b) THEN FNaN
  ELSE IF IsInf(a) \/ IsInf(b)
  THEN (IF IsZero(a) \/ IsZero(b) THEN FNaN ELSE FInf(Xor(a.s, b.s)))
  ELSE IF IsZero(a) \/ IsZero(b) THEN FZero
  ELSE Round(Xor(a.s, b.s), WMul(a.m, b.m), a.e + b.e, FALSE)

\* IEEE division (numpy's float64 and C's double): x/0 is an infinity
FDiv(a, b) ==
  IF IsNaN(a) \/ IsNaN(b) THEN FNaN
  ELSE IF IsInf(a) THEN (IF IsInf(b) THEN FNaN ELSE FInf(Xor(a.s, b.s)))
  ELSE IF IsInf(b) THEN FZero
  ELSE IF IsZero(b) THEN (IF IsZero(a) THEN FNaN ELSE FInf(Xor(a.s, b.s)))
  ELSE IF IsZero(a) THEN FZero
  ELSE With([qr \in {WDiv(WShl(a.m, Prec + 4), b.m)} |->
         Round(Xor(a.s, b.s), qr[1], a.e - b.e - (Prec + 4), qr[2])])

(* ------------------------------------------------------------------ *)
(* log10 and 10**y, as the C library computes them: to within a few   *)
(* units of the last digit, exact at the powers of ten.               *)
(* ------------------------------------------------------------------ *)
LogDigits == Prec + 1
Ln10 == Dec(2302, 5850, 9299, 4046, 0 - 15)

\* One decimal of log10(m) for 1 <= m < 10: the decade of m^10.  st.m is the
\* number still to take the logarithm of, st.acc the decimals found so far
\* (a wide natural), st.n the number of decimals still wanted.
Sq(x) == FMul(x, x)

LogStep(st) ==
  With([p10 \in {Sq(FMul(Sq(Sq(st.m)), st.m))} |->
    [m   |-> [p10 EXCEPT !.e = 1 - Prec],
     acc |-> WAdd(WMulSmall(st.acc, 10), WNat(p10.e + Prec - 1)),
     n   |-> st.n - 1]])

\* LogStep until st.n = 0, at most 2^h times; halving keeps the evaluation
\* shallow
RECURSIVE LogRun(_, _)
LogRun(st, h) ==
  IF st.n = 0 THEN st
  ELSE IF h = 0 THEN LogStep(st)
  ELSE LogRun(LogRun(st, h - 1), h - 1)

LogFrac(m, n) == LogRun([m |-> m, acc |-> WZero, n |-> n], 5).acc

Log10(x) ==
  IF IsNaN(x) THEN FNaN
  ELSE IF IsZero(x) THEN FInf(1)
  ELSE IF x.s = 1 THEN FNaN
  ELSE IF IsInf(x) THEN x
  ELSE LET E    == x.e + Prec - 1
           frac == LogFrac([x EXCEPT !.e = 1 - Prec], LogDigits)
           whole == WShl(WNat(IF E < 0 THEN 0 - E ELSE E), LogDigits)
       IN  IF E >= 0 THEN Round(0, WAdd(whole, frac), 0 - LogDigits, FALSE)
           ELSE Round(1, WSub(whole, frac), 0 - LogDigits, FALSE)

\* floor(y) for a finite y with |y| < 10^4
FloorInt(y) ==
  IF IsZero(y) THEN 0
  ELSE IF y.e >= 0 THEN (IF y.s = 1 THEN 0 - Base ELSE Base)
  ELSE LET qs == WShr(y.m, 0 - y.e)
           q  == IF WDigits(qs) > 4 THEN Base ELSE qs[1]
       IN  IF y.s = 0 THEN q
           ELSE IF WSticky(y.m, 0 - y.e) THEN 0 - q - 1 ELSE 0 - q

ExpTerms == 2 * Prec

\* 1 + z/1 (1 + z/2 (1 + z/3 ( ... ))): the Taylor series of exp at 0,
\* summed from its last term; st.t is the sum of the terms after the st.k-th
ExpStep(z, st) ==
  [k |-> st.k - 1,
   t |-> FAdd(Num(1, 0), FMul(FDiv(z, Num(st.k, 0)), st.t))]

\* ExpStep until st.k = 0, at most 2^h times
RECURSIVE ExpRun(_, _, _)
ExpRun(z, st, h) ==
  IF st.k = 0 THEN st
  ELSE IF h = 0 THEN ExpStep(z, st)
  ELSE ExpRun(z, ExpRun(z, st, h - 1), h - 1)

ExpSeries(z) == ExpRun(z, [k |-> ExpTerms, t |-> Num(1, 0)], 5).t

Pow10(y) ==
  IF IsNaN(y) THEN FNaN
  ELSE IF IsInf(y) THEN (IF y.s = 1 THEN FZero ELSE y)
  ELSE With([n \in {FloorInt(y)} |->
         IF n >= Base THEN FInf(0)
         ELSE IF n <= 0 - Base THEN FZero
         ELSE With([e8 \in {ExpSeries(FMul(FSub(y, Num(n, 0)), Ln10))} |->
                Round(0, e8.m, e8.e + n, FALSE)])])

(* ------------------------------------------------------------------ *)
(* calculate_ph_and_alkalinity_fixed.py                                *)
(* ------------------------------------------------------------------ *)
\* chemicals.elements.molecular_weight of carbon and of nitrogen
C_mw == Num(120107, 0 - 4)
N_mw == Num(140067, 0 - 4)

COD_EQ_AC  == Num(64, 0)
COD_EQ_PRO == Num(112, 0)
COD_EQ_BU  == Num(160, 0)
COD_EQ_VA  == Num(208, 0)

required_comps == {"S_cat", "S_an", "S_IC", "S_IN", "S_ac", "S_pro", "S_bu", "S_va"}

\* A dict keyed by the required components is a record of entries,
\* [has |-> whether the key is in the dict, v |-> its value].
NoEntry  == [has |-> FALSE, v |-> FZero]
Entry(v) == [has |-> TRUE, v |-> v]

\* dict.get(key, 0)
Get(e) == IF e.has THEN e.v ELSE FZero

\* variant: the dict is never taken for empty
never_empty(c) == FALSE

\* not components_molarity
IsEmptyDict(c) == \A k \in required_comps : ~c[k].has

\* [Kw, Ka_nh, Ka_co2, Ka_ac, Ka_pr, Ka_bu, Ka_va]
pKa_base == <<Num(14, 0), Num(925, 0 - 2), Num(635, 0 - 2), Num(476, 0 - 2),
              Num(488, 0 - 2), Num(482, 0 - 2), Num(486, 0 - 2)>>

\* np.array([10**(-pKa) for pKa in pKa_base])
Ka == [i \in 1..7 |-> Pow10(FNeg(pKa_base[i]))]

Ka2_co2 == Pow10(FNeg(Num(103, 0 - 1)))

\* S * K / (K + h): the dissociated part of a weak acid or base
Ion(S, K, h) == FDiv(FMul(S, K), FAdd(K, h))

\* The dissociated species at hydrogen ion concentration h_ion
Species(h_ion, c, K) ==
  With([hco3 \in {Ion(Get(c.S_IC), K[3], h_ion)} |->
    [oh_ion  |-> FDiv(K[1], h_ion),
     nh3     |-> Ion(Get(c.S_IN), K[2], h_ion),
     hco3    |-> hco3,
     co3     |-> FDiv(FMul(hco3, Ka2_co2), h_ion),
     ac_ion  |-> Ion(Get(c.S_ac), K[4], h_ion),
     pro_ion |-> Ion(Get(c.S_pro), K[5], h_ion),
     bu_ion  |-> Ion(Get(c.S_bu), K[6], h_ion),
     va_ion  |-> Ion(Get(c.S_va), K[7], h_ion)]])

\* variant: the hydrogen ion counted with the negative charges
acid_base_rxn_h_negative(h_ion, c, K) ==
  With([sp \in {Species(h_ion, c, K)} |->
    FSub(FSub(FSub(FSub(FSub(FSub(FSub(FSub(
      FSub(FAdd(FSub(Get(c.S_cat), h_ion), FSub(Get(c.S_IN), sp.nh3)), Get(c.S_an)),
      sp.oh_ion), sp.hco3), FMul(Num(2, 0), sp.co3)), sp.ac_ion), sp.pro_ion),
      sp.bu_ion), sp.va_ion), FZero)])

\* The charge balance, summed from the left as Python does:
\* S_cat + h_ion + nh4 - S_an - oh_ion - hco3 - (2 * co3) - ac_ion
\*   - pro_ion - bu_ion - va_ion
acid_base_rxn(h_ion, c, K) ==
  With([sp \in {Species(h_ion, c, K)} |->
  With([nh4 \in {FSub(Get(c.S_IN), sp.nh3)} |->
  With([t3 \in {FSub(FAdd(FAdd(Get(c.S_cat), h_ion), nh4), Get(c.S_an))} |->
  With([t6 \in {FSub(FSub(FSub(t3, sp.oh_ion), sp.hco3), FMul(Num(2, 0), sp.co3))} |->
  With([t8 \in {FSub(FSub(t6, sp.ac_ion), sp.pro_ion)} |->
    FSub(FSub(t8, sp.bu_ion), sp.va_ion)])])])])])

(* ------------------------------------------------------------------ *)
(* scipy.optimize.brenth, as solve_ph calls it:                        *)
(* brenth(acid_base_rxn, 1e-14, 1.0, xtol=1e-12, maxiter=100)          *)
(* ------------------------------------------------------------------ *)
xa   == Num(1, 0 - 14)
xb   == Num(1, 0)
xtol == Num(1, 0 - 12)
\* brenth's default rtol, 4 * numpy.finfo(float).eps
rtol == Dec(8881, 7841, 9700, 1252, 0 - 31)
maxiter == 100

Min(a, b) == IF FLt(a, b) THEN a ELSE b

\* The solver's variables before the first iteration; status is "run", or
\* "ok" with the root x, or "signerr"
BrentStart(c, K) ==
  With([f \in {[x \in {xa, xb} |-> acid_base_rxn(x, c, K)]} |->
  With([st \in {[status |-> "run", x |-> FZero, iter |-> 0,
                 xpre |-> xa, xcur |-> xb, xblk |-> FZero,
                 fpre |-> f[xa], fcur |-> f[xb],
                 fblk |-> FZero, spre |-> FZero, scur |-> FZero]} |->
    IF IsNaN(st.fpre) \/ IsNaN(st.fcur) THEN [st EXCEPT !.status = "nan"]
    ELSE IF FEq(st.fpre, FZero) THEN [st EXCEPT !.status = "ok", !.x = xa]
    ELSE IF FEq(st.fcur, FZero) THEN [st EXCEPT !.status = "ok", !.x = xb]
    ELSE IF SignBit(st.fpre) = SignBit(st.fcur) THEN [st EXCEPT !.status = "signerr"]
    ELSE st])])

\* if (fpre != 0 && fcur != 0 && signbit(fpre) != signbit(fcur)):
\* the bracket moves to the previous point
Rebracket(st) ==
  IF FNe(st.fpre, FZero) /\ FNe(st.fcur, FZero) /\ SignBit(st.fpre) # SignBit(st.fcur)
  THEN With([d \in {FSub(st.xcur, st.xpre)} |->
         [st EXCEPT !.xblk = st.xpre, !.fblk = st.fpre, !.spre = d, !.scur = d]])
  ELSE st

\* if (fabs(fblk) < fabs(fcur)): the better point becomes the current one
Swap(st) ==
  IF FLt(FAbs(st.fblk), FAbs(st.fcur))
  THEN [st EXCEPT !.xpre = st.xcur, !.xcur = st.xblk, !.xblk = st.xcur,
                  !.fpre = st.fcur, !.fcur = st.fblk, !.fblk = st.fcur]
  ELSE st

\* the step by interpolation (two points) or extrapolation (three)
Stry(st) ==
  IF FEq(st.xpre, st.xblk)
  THEN FDiv(FMul(FNeg(st.fcur), FSub(st.xcur, st.xpre)), FSub(st.fcur, st.fpre))
  ELSE LET dpre == FDiv(FSub(st.fpre, st.fcur), FSub(st.xpre, st.xcur))
           dblk == FDiv(FSub(st.fblk, st.fcur), FSub(st.xblk, st.xcur))
       IN  FDiv(FMul(FNeg(st.fcur), FSub(st.fblk, st.fpre)),
                FSub(FMul(st.fblk, dpre), FMul(st.fpre, dblk)))

\* spre and scur of a pass: the interpolated step where it is tried and
\* short enough, the bisection step otherwise
Step(s1, delta, sbis) ==
  IF FGt(FAbs(s1.spre), delta) /\ FLt(FAbs(s1.fcur), FAbs(s1.fpre))
  THEN With([stry \in {Stry(s1)} |->
         IF FLt(FMul(Num(2, 0), FAbs(stry)),
                Min(FAbs(s1.spre), FSub(FMul(Num(3, 0), FAbs(sbis)), delta)))
         THEN [spre |-> s1.scur, scur |-> stry]
         ELSE [spre |-> sbis, scur |-> sbis]])
  ELSE [spre |-> sbis, scur |-> sbis]

\* One pass of the loop body of brenth
BrentStep(st, c, K) ==
  With([s1 \in {Swap(Rebracket(st))} |->
  With([delta \in {FDiv(FAdd(xtol, FMul(rtol, FAbs(s1.xcur))), Num(2, 0))} |->
  With([sbis \in {FDiv(FSub(s1.xblk, s1.xcur), Num(2, 0))} |->
    IF FEq(s1.fcur, FZero) \/ FLt(FAbs(sbis), delta)
    THEN [s1 EXCEPT !.status = "ok", !.x = s1.xcur, !.iter = st.iter + 1]
    ELSE With([step \in {Step(s1, delta, sbis)} |->
         With([xcur \in {IF FGt(FAbs(step.scur), delta) THEN FAdd(s1.xcur, step.scur)
              ELSE FAdd(s1.xcur, IF FGt(sbis, FZero) THEN delta ELSE FNeg(delta))} |->
         With([fcur \in {acid_base_rxn(xcur, c, K)} |->
           IF IsNaN(fcur)
           THEN [s1 EXCEPT !.status = "nan", !.iter = st.iter + 1]
           ELSE [s1 EXCEPT !.iter = st.iter + 1,
                           !.spre = step.spre, !.scur = step.scur,
                           !.xpre = s1.xcur, !.fpre = s1.fcur,
                           !.xcur = xcur, !.fcur = fcur]])])])])])])

\* for (i = 0; i < iter; i++): one pass, if the solver still runs and has
\* passes left; "converr" when the passes are used up
BrentIter(st, c, K) ==
  IF st.status # "run" THEN st
  ELSE IF st.iter >= maxiter THEN [st EXCEPT !.status = "converr", !.x = st.xcur]
  ELSE BrentStep(st, c, K)

\* BrentIter until the solver has stopped, at most 2^h times
RECURSIVE BrentRun(_, _, _, _)
BrentRun(st, c, K, h) ==
  IF st.status # "run" THEN st
  ELSE IF h = 0 THEN BrentIter(st, c, K)
  ELSE BrentRun(BrentRun(st, c, K, h - 1), c, K, h - 1)

\* brenth(acid_base_rxn, 1e-14, 1.0, args=(c, K)): the loop, for
\* maxiter < 2^7.  status "ok" (x the root), "signerr", "converr" or "nan"
brenth(c, K) == BrentRun(BrentStart(c, K), c, K, 7)

(* ------------------------------------------------------------------ *)
(* solve_ph, calculate_alkalinity, get_component_molarities            *)
(* ------------------------------------------------------------------ *)
\* variant: no except clause
solve_ph_uncaught(c, K) ==
  With([r \in {brenth(c, K)} |->
    IF r.status = "ok"
    THEN [raised |-> "none", status |-> r.status, h |-> r.x]
    ELSE IF r.status \in {"signerr", "nan"}
    THEN [raised |-> "ValueError", status |-> r.status, h |-> FNaN]
    ELSE [raised |-> "RuntimeError", status |-> r.status, h |-> FNaN]])

\* variant: the except clause returns 0.0
solve_ph_zero_default(c, K) ==
  With([r \in {brenth(c, K)} |->
    IF r.status = "ok"
    THEN [raised |-> "none", status |-> r.status, h |-> r.x]
    ELSE IF r.status \in {"signerr", "nan"}
    THEN [raised |-> "none", status |-> r.status, h |-> FZero]
    ELSE [raised |-> "RuntimeError", status |-> r.status, h |-> FNaN]])

\* brenth raises ValueError when f(a) and f(b) have the same sign and when
\* the function value is NaN, and RuntimeError when maxiter iterations did
\* not converge.  solve_ph catches ValueError only.
\* [raised |-> the exception that leaves solve_ph or "none",
\*  status |-> how brenth ended, h |-> the value returned]
solve_ph(c, K) ==
  With([r \in {brenth(c, K)} |->
    IF r.status = "ok"
    THEN [raised |-> "none", status |-> r.status, h |-> r.x]
    ELSE IF r.status \in {"signerr", "nan"}
    THEN [raised |-> "none", status |-> r.status, h |-> Num(1, 0 - 7)]
    ELSE [raised |-> "RuntimeError", status |-> r.status, h |-> FNaN]])

\* variant: no clamp
Unclamped(x) == x

\* max(0, x) of Python: x when x > 0, else 0
Max0(x) == IF FGt(x, FZero) THEN x ELSE FZero

\* variant: the net strong base S_cat - S_an counted in the alkalinity
alk_meq_with_strong_ions(c, pH, K) ==
  With([h_ion \in {Pow10(FNeg(pH))} |->
  With([sp \in {Species(h_ion, c, K)} |->
    FMul(FAdd(FSub(FAdd(FAdd(FAdd(FAdd(FAdd(FAdd(FAdd(
           sp.hco3, FMul(Num(2, 0), sp.co3)), sp.nh3), sp.ac_ion), sp.pro_ion),
           sp.bu_ion), sp.va_ion), sp.oh_ion), h_ion),
           FSub(Get(c.S_cat), Get(c.S_an))),
         Num(1000, 0))])])

\* alk_meq of calculate_alkalinity, before the clamp
\* hco3 + 2*co3 + nh3 + ac_ion + pro_ion + bu_ion + va_ion + oh_ion - h_ion,
\* summed from the left, times 1000
alk_meq(c, pH, K) ==
  With([h_ion \in {Pow10(FNeg(pH))} |->
  With([sp \in {Species(h_ion, c, K)} |->
  With([a3 \in {FAdd(FAdd(FAdd(sp.hco3, FMul(Num(2, 0), sp.co3)), sp.nh3), sp.ac_ion)} |->
  With([a6 \in {FAdd(FAdd(FAdd(a3, sp.pro_ion), sp.bu_ion), sp.va_ion)} |->
    FMul(FSub(FAdd(a6, sp.oh_ion), h_ion), Num(1000, 0))])])])])

calculate_alkalinity(c, pH, K) == Max0(alk_meq(c, pH, K))

\* What stream.iconc[comp_id] does for a component of the stream:
\* [kind |-> "value", v |-> a float, possibly NaN or an infinity], or
\* [kind |-> "KeyError" | "ValueError" | "TypeError"] when the lookup or the
\* conversion to float raises.  A component that is not among
\* stream.components.IDs has [kind |-> "absent"].
Absent    == [kind |-> "absent", v |-> FZero]
Raises(x) == [kind |-> x, v |-> FZero]
Value(v)  == [kind |-> "value", v |-> v]

\* variant: no np.isfinite test
Concentration_unchecked(l) ==
  IF l.kind = "absent" THEN NoEntry
  ELSE IF l.kind = "value" THEN Entry(l.v)
  ELSE Entry(FZero)

\* variant: a component that the stream does not have is entered as 0.0
Concentration_zero_filled(l) ==
  IF l.kind = "value" /\ IsFinite(l.v) THEN Entry(l.v) ELSE Entry(FZero)

\* concentrations[comp_id] after the loop over stream.components.IDs
Concentration(l) ==
  IF l.kind = "absent" THEN NoEntry
  ELSE IF l.kind = "value" THEN Entry(IF IsFinite(l.v) THEN l.v ELSE FZero)
  ELSE Entry(FZero)

\* concentrations[k] / (w * 1000.0) if w > 0 else 0.0, for a key in the dict
PerMole(e, w) ==
  IF ~e.has THEN NoEntry
  ELSE IF FGt(w, FZero) THEN Entry(FDiv(e.v, FMul(w, Num(1000, 0))))
  ELSE Entry(FZero)

\* concentrations[k] / 1000.0, for a key in the dict
PerThousand(e) == IF e.has THEN Entry(FDiv(e.v, Num(1000, 0))) ELSE NoEntry

get_component_molarities(iconc) ==
  [S_cat |-> PerThousand(Concentration(iconc.S_cat)),
   S_an  |-> PerThousand(Concentration(iconc.S_an)),
   S_IN  |-> PerMole(Concentration(iconc.S_IN), N_mw),
   S_IC  |-> PerMole(Concentration(iconc.S_IC), C_mw),
   S_ac  |-> PerMole(Concentration(iconc.S_ac), COD_EQ_AC),
   S_pro |-> PerMole(Concentration(iconc.S_pro), COD_EQ_PRO),
   S_bu  |-> PerMole(Concentration(iconc.S_bu), COD_EQ_BU),
   S_va  |-> PerMole(Concentration(iconc.S_va), COD_EQ_VA)]

(* ------------------------------------------------------------------ *)
(* update_ph_and_alkalinity                                            *)
(* ------------------------------------------------------------------ *)
\* A stream: its phase, what stream.iconc answers for each required
\* component, and the two annotated fields.  A WasteStream is constructed
\* with pH 7 and alkalinity 2.5.
NewStream(phase, iconc) ==
  [phase |-> phase, iconc |-> iconc, pH |-> Num(7, 0), SAlk |-> Num(25, 0 - 1)]

\* variant: the phase is compared with 'g' in place of 'l'
not_gas(stream) == stream.phase # "g"

\* if stream.phase != 'l'
not_liquid(stream) == stream.phase # "l"

\* variant: the new alkalinity is added to the one already on the stream
annotate_accumulating(stream, pH, alk) ==
  [stream EXCEPT !.pH = pH, !.SAlk = FAdd(alk, stream.SAlk)]

\* variant: a component read is dropped from the stream
annotate_and_drop(stream, pH, alk) ==
  [stream EXCEPT !.pH = pH, !.SAlk = alk, !.iconc.S_cat = Absent]

\* stream._pH = pH; stream._SAlk = alk
annotate(stream, pH, alk) == [stream EXCEPT !.pH = pH, !.SAlk = alk]

\* The stream after the call, and how the call went: route is "nonliquid",
\* "default", "solved", "fallback" (solve_ph answered from its except
\* branch) or "raised" (an exception left the call, raised names it);
\* status and h are what the solver reported, where it ran.
update_ph_and_alkalinity(stream) ==
  IF not_liquid(stream)
  THEN [stream |-> annotate(stream, Num(7, 0), FZero),
        route |-> "nonliquid", raised |-> "none", status |-> "-", h |-> FZero]
  ELSE With([components_molarity \in {get_component_molarities(stream.iconc)} |->
         IF IsEmptyDict(components_molarity)
         THEN [stream |-> annotate(stream, Num(7, 0),
                                   FMul(Num(25, 0 - 1), Num(1000, 0))),
               route |-> "default", raised |-> "none", status |-> "-", h |-> FZero]
         ELSE With([sol \in {solve_ph(components_molarity, Ka)} |->
                IF sol.raised # "none"
                THEN [stream |-> stream, route |-> "raised", raised |-> sol.raised,
                      status |-> sol.status, h |-> FZero]
                ELSE With([pH \in {IF FGt(sol.h, FZero) THEN FNeg(Log10(sol.h))
                          ELSE Num(14, 0)} |->
                       [stream |-> annotate(stream, pH,
                                     calculate_alkalinity(components_molarity, pH, Ka)),
                        route |-> IF sol.status = "ok" THEN "solved" ELSE "fallback",
                        raised |-> "none", status |-> sol.status, h |-> sol.h]])])])

(* ------------------------------------------------------------------ *)
(* The streams the calls are made on                                   *)
(* ------------------------------------------------------------------ *)
\* What stream.iconc answers, per required component (keq/m3 for S_cat and
\* S_an, kg/m3 for the others).
unmodelled == [S_cat |-> Absent, S_an |-> Absent, S_IC |-> Absent, S_IN |-> Absent,
               S_ac |-> Absent, S_pro |-> Absent, S_bu |-> Absent, S_va |-> Absent]

\* every required component modelled, none of it in the stream
blank == [S_cat |-> Value(FZero), S_an |-> Value(FZero), S_IC |-> Value(FZero),
          S_IN |-> Value(FZero), S_ac |-> Value(FZero), S_pro |-> Value(FZero),
          S_bu |-> Value(FZero), S_va |-> Value(FZero)]

\* the stream of main()
test_conc == [S_cat |-> Value(Num(40, 0)), S_an |-> Value(Num(20, 0)),
              S_IC |-> Value(Num(6, 0 - 1)), S_IN |-> Value(Num(5, 0 - 2)),
              S_ac |-> Value(Num(5, 0 - 1)), S_pro |-> Value(Num(2, 0 - 1)),
              S_bu |-> Value(Num(1, 0 - 1)), S_va |-> Value(Num(1, 0 - 1))]

\* strong acid only: the charge balance is positive over the whole bracket
acid == [unmodelled EXCEPT !.S_an = Value(Num(2000, 0))]

\* strong base at 0.99999999999999 eq/L: the balance vanishes at h = 1e-14
caustic == [unmodelled EXCEPT !.S_cat = Value(Dec(9999, 9999, 9999, 9900, 0 - 13))]

\* a trace of strong base that moves the root of the balance onto 1e-7
neutral == [unmodelled EXCEPT !.S_cat = Value(Num(102391105, 0 - 19))]

\* concentrations on which brenth is still iterating after maxiter steps
runaway == [unmodelled EXCEPT !.S_cat = Value(Num(1, 156)), !.S_IC = Value(Num(1, 155))]

\* strong ions readable, every other lookup failing or not finite
faulty == [S_cat |-> Value(Num(40, 0)), S_an |-> Value(Num(20, 0)),
           S_IC |-> Value(FNaN), S_IN |-> Value(FInf(0)), S_ac |-> Value(FInf(1)),
           S_pro |-> Raises("KeyError"), S_bu |-> Raises("ValueError"),
           S_va |-> Raises("TypeError")]

\* the same stream with zero where faulty has no usable value
mended == [S_cat |-> Value(Num(40, 0)), S_an |-> Value(Num(20, 0)),
           S_IC |-> Value(FZero), S_IN |-> Value(FZero), S_ac |-> Value(FZero),
           S_pro |-> Value(FZero), S_bu |-> Value(FZero), S_va |-> Value(FZero)]

\* less strong acid than acid has: the balance changes sign in the bracket
sour == [unmodelled EXCEPT !.S_an = Value(Num(500, 0))]

\* a lookup that answers a negative concentration
deficit == [unmodelled EXCEPT !.S_cat = Value(Num(0 - 40, 0))]

Feeds == {unmodelled, blank, test_conc, acid, caustic, neutral, runaway, faulty,
          mended, sour, deficit}

Phases == {"l", "g", "s"}

StreamIDs == {"ws1", "ws2"}

\* calls made on one stream
MaxUpdates == 2

Fresh == {NewStream(phase, iconc) : phase \in Phases, iconc \in Feeds}

\* The calls on the streams as constructed and on the streams one call
\* leaves, each computed once.
RECURSIVE CallsFrom(_, _)
CallsFrom(S, n) ==
  IF n = 0 \/ S = {} THEN {}
  ELSE With([made \in {{<<stream, update_ph_and_alkalinity(stream)>> : stream \in S}} |->
              made \cup CallsFrom({call[2].stream : call \in made} \ S, n - 1)])

Calls == CallsFrom(Fresh, MaxUpdates)

FreshCalls == {call \in Calls : call[1] \in Fresh}

Annotated == {call[2].stream : call \in FreshCalls} \ Fresh

AnnotatedCalls == {call \in Calls : call[1] \in Annotated}

Call(stream) == (CHOOSE call \in Calls : call[1] = stream)[2]

\* the molarities of each feed, computed once
Molarities == {<<iconc, get_component_molarities(iconc)>> : iconc \in Feeds}

MolaritiesOf(iconc) == (CHOOSE pair \in Molarities : pair[1] = iconc)[2]

(* ------------------------------------------------------------------ *)
(* The MCP server: the global simulation_state and the tools that read *)
(* and write it, one tool call at a time.  A Python value is           *)
(* [t |-> "num", x |-> a float], [t |-> "str", s |-> a string] or      *)
(* None, [t |-> "none"]; a reactor_index is a 1-tuple holding an int,  *)
(* or the empty tuple for None.                                        *)
(* ------------------------------------------------------------------ *)
PyNum(x) == [t |-> "num", x |-> x]
PyStr(s) == [t |-> "str", s |-> s]
None     == [t |-> "none"]
PyNone   == None

\* float(s) for the strings the callers send; no entry for a ValueError
float(s) == IF s = "2.5" THEN Entry(Num(25, 0 - 1)) ELSE NoEntry

Tools == {"describe_feedstock", "validate_feedstock_charge_balance",
          "describe_kinetics", "set_flow_parameters", "set_reactor_parameters",
          "run_simulation_tool", "get_stream_properties", "get_inhibition_analysis",
          "get_biomass_yields", "reset_simulation", "check_nutrient_balance",
          "generate_report", "get_parameter", "set_parameter"}

\* the keys that callers give to the dicts influent_values and kinetic_params
Keys == {"S_su", "S_IN", "Y_su", "Temp", "HRT", "method", "Q", "simulation_time", "t_step"}

\* cmps.IDs of the components that pc.create_adm1_cmps() loads, as far as
\* the callers name them
ComponentIDs == {"S_su", "S_IN"}

\* pc.create_adm1_cmps()
create_adm1_cmps == [IDs |-> ComponentIDs]

valid_methods == {"BDF", "RK45", "RK23", "DOP853", "Radau", "LSODA"}

\* the state after __init__; the explanations and ai_recommendations are
\* left out, cmps is None or the loaded components with their IDs,
\* tool_responses holds the length of each tool's list
ADM1SimulationState ==
  [influent_values |-> [k \in Keys |-> NoEntry],
   kinetic_params  |-> [k \in Keys |-> NoEntry],
   use_kinetics    |-> FALSE,
   Q               |-> Num(170, 0),
   sim_params      |-> <<[Temp |-> Num(30815, 0 - 2), HRT |-> Num(30, 0), method |-> "BDF"],
                         [Temp |-> Num(30815, 0 - 2), HRT |-> Num(45, 0), method |-> "BDF"],
                         [Temp |-> Num(30815, 0 - 2), HRT |-> Num(60, 0), method |-> "BDF"]>>,
   sim_results     |-> <<None, None, None>>,
   simulation_time |-> Num(150, 0),
   t_step          |-> Num(1, 0 - 1),
   cmps            |-> None,
   tool_responses  |-> [tool \in Tools |-> 0]]

add_tool_response(state, tool_name) ==
  [state EXCEPT !.tool_responses[tool_name] = @ + 1]

\* the message of a tool that names no parameter
NoMessage == [type |-> "none", name |-> "none", value |-> PyNone, index |-> <<>>]

\* what a tool hands back: the global as the tool leaves it and the keys of
\* the JSON it returns (results_cleared is "absent" where the key is not
\* set; of a message, the parameter and the value that it names; of the
\* results, whether each scenario succeeded)
Response(state, success, results_cleared) ==
  [state |-> state, success |-> success, results_cleared |-> results_cleared,
   message |-> NoMessage, results |-> <<>>, executed |-> FALSE, wrote |-> FALSE]

\* variant: the results stay as they are
results_kept(state) == state

\* simulation_state.sim_results = [None] * len(simulation_state.sim_params)
ClearResults(state) ==
  [state EXCEPT !.sim_results = [i \in DOMAIN state.sim_params |-> None]]

\* variant: the dict answers None for every key
dict_get_nothing(d, k) == PyNone

\* d.get(k): the value under the key, None where the dict has no such key
dict_get(d, k) == IF d[k].has THEN PyNum(d[k].v) ELSE PyNone

\* not d, for a dict d
IsEmpty(d) == \A k \in DOMAIN d : ~d[k].has

describe_feedstock(state, recommended) ==
  IF ~recommended THEN Response(state, FALSE, "absent")
  ELSE Response([state EXCEPT !.influent_values["S_su"] = Entry(Num(10, 0)),
                              !.kinetic_params = [k \in Keys |-> NoEntry],
                              !.use_kinetics = FALSE], TRUE, "absent")

\* loads: whether pc.create_adm1_cmps() returns; calculated: whether
\* calculate_charge_balance gives the two sums
validate_feedstock_charge_balance(state, loads, calculated) ==
  IF IsEmpty(state.influent_values) THEN Response(state, FALSE, "absent")
  ELSE IF state.cmps = None /\ ~loads THEN Response(state, FALSE, "absent")
  ELSE Response([state EXCEPT !.cmps = create_adm1_cmps], calculated, "absent")

describe_kinetics(state, recommended) ==
  IF ~recommended THEN Response(state, FALSE, "absent")
  ELSE Response([state EXCEPT !.influent_values["S_su"] = Entry(Num(10, 0)),
                              !.kinetic_params["Y_su"] = Entry(Num(1, 0 - 1)),
                              !.use_kinetics = TRUE], TRUE, "absent")

set_flow_parameters(state, flow_rate, simulation_time, time_step) ==
  IF FLe(flow_rate, FZero) THEN Response(state, FALSE, "absent")
  ELSE IF FLe(simulation_time, FZero) THEN Response(state, FALSE, "absent")
  ELSE IF FLe(time_step, FZero) \/ FGt(time_step, simulation_time)
       THEN Response(state, FALSE, "absent")
  ELSE Response([state EXCEPT !.Q = flow_rate,
                              !.simulation_time = simulation_time,
                              !.t_step = time_step], TRUE, "absent")

set_reactor_parameters(state, reactor_index, temperature, hrt, integration_method) ==
  IF reactor_index < 1 \/ reactor_index > 3 THEN Response(state, FALSE, "absent")
  ELSE IF FLt(temperature, Num(27315, 0 - 2)) \/ FGt(temperature, Num(37315, 0 - 2))
       THEN Response(state, FALSE, "absent")
  ELSE IF FLe(hrt, FZero) THEN Response(state, FALSE, "absent")
  ELSE IF integration_method \notin valid_methods THEN Response(state, FALSE, "absent")
  ELSE Response([state EXCEPT !.sim_params[reactor_index] =
                   [Temp |-> temperature, HRT |-> hrt, method |-> integration_method]],
                TRUE, "absent")

\* what run_simulation returns: the system and the streams that these
\* arguments give
run_simulation(state, params) ==
  [t |-> "result", Q |-> state.Q, Temp |-> params.Temp, HRT |-> params.HRT,
   concentrations |-> state.influent_values, kinetic_params |-> state.kinetic_params,
   simulation_time |-> state.simulation_time, t_step |-> state.t_step,
   method |-> params.method, use_kinetics |-> state.use_kinetics]

\* variant: the loop ends at the first scenario that raises
Stopped(loop, i, failing) == i > Len(loop.sim_results) \/ i \in failing

\* the loop has gone through every scenario
Exhausted(loop, i, failing) == i > Len(loop.sim_results)

\* for i, params in enumerate(simulation_state.sim_params), from scenario i
\* on; failing: the scenarios whose run_simulation raises
RECURSIVE Scenarios(_, _, _, _)
Scenarios(state, loop, i, failing) ==
  IF Exhausted(loop, i, failing) THEN loop
  ELSE Scenarios(state,
         [sim_results |-> [loop.sim_results EXCEPT ![i] =
                             IF i \in failing THEN None
                             ELSE run_simulation(state, state.sim_params[i])],
          results_summary |-> Append(loop.results_summary, i \notin failing)],
         i + 1, failing)

run_simulation_tool(state, failing) ==
  IF IsEmpty(state.influent_values)
  THEN Response(state, FALSE, "absent")
  ELSE With([loop \in {Scenarios(state, [sim_results |-> ClearResults(state).sim_results,
                                         results_summary |-> <<>>], 1, failing)} |->
         [Response([state EXCEPT !.sim_results = loop.sim_results],
                   \E i \in DOMAIN loop.results_summary : loop.results_summary[i],
                   "absent")
            EXCEPT !.results = loop.results_summary]])

\* variant: the state object is kept and only its results are dropped
reset_results_only(state) == Response(ClearResults(state), TRUE, "absent")

\* a stream_type is [prefix, number], the number after "effluent" or
\* "biogas", 0 where there is none; analysed: whether the analysis of the
\* stream reports success
get_stream_properties(state, stream_type, analysed) ==
  IF stream_type.prefix = "influent" THEN
    IF IsEmpty(state.influent_values) THEN Response(state, FALSE, "absent")
    ELSE Response(state, analysed, "absent")
  ELSE IF stream_type.prefix \in {"effluent", "biogas"} THEN
    IF ~(0 <= stream_type.number - 1 /\ stream_type.number - 1 < Len(state.sim_results))
    THEN Response(state, FALSE, "absent")
    ELSE IF state.sim_results[stream_type.number] = None
    THEN Response(state, FALSE, "absent")
    ELSE Response(state, analysed, "absent")
  ELSE Response(state, FALSE, "absent")

get_inhibition_analysis(state, simulation_index, analysed) ==
  IF ~(1 <= simulation_index /\ simulation_index <= Len(state.sim_params))
  THEN Response(state, FALSE, "absent")
  ELSE IF state.sim_results[simulation_index] = None
  THEN Response(state, FALSE, "absent")
  ELSE Response(state, analysed, "absent")

get_biomass_yields(state, simulation_index, analysed) ==
  IF ~(1 <= simulation_index /\ simulation_index <= Len(state.sim_params))
  THEN Response(state, FALSE, "absent")
  ELSE IF state.sim_results[simulation_index] = None
  THEN Response(state, FALSE, "absent")
  ELSE Response(state, analysed, "absent")

\* analysed: whether analyze_inhibition returns rather than raises
check_nutrient_balance(state, simulation_index, element, analysed) ==
  IF ~(1 <= simulation_index /\ simulation_index <= Len(state.sim_params))
  THEN Response(state, FALSE, "absent")
  ELSE IF element \notin {"N", "P"} THEN Response(state, FALSE, "absent")
  ELSE IF state.sim_results[simulation_index] = None
  THEN Response(state, FALSE, "absent")
  ELSE IF IsEmpty(state.influent_values) THEN Response(state, FALSE, "absent")
  ELSE Response(state, analysed, "absent")

\* global simulation_state; simulation_state = ADM1SimulationState()
reset_simulation(state) == Response(ADM1SimulationState, TRUE, "absent")

\* variant: a report is made whether or not the scenario has results
results_assumed(state, idx) == TRUE

\* not (simulation_state.sim_results[idx] is None)
has_results(state, idx) == state.sim_results[idx] # None

\* ended: how the work after the three tests ends, "rendered" with the
\* reports written, "template_missing" with FileNotFoundError before anything
\* is written, "execution_error" with a partial notebook, "conversion_failed"
\* with the executed notebook and no report
generate_report(state, simulation_index, ended) ==
  IF ~(1 <= simulation_index /\ simulation_index <= Len(state.sim_params))
  THEN Response(state, FALSE, "absent")
  ELSE IF state.tool_responses["run_simulation_tool"] = 0
  THEN Response(state, FALSE, "absent")
  ELSE IF ~has_results(state, simulation_index)
  THEN Response(state, FALSE, "absent")
  ELSE [Response(state, ended = "rendered", "absent")
          EXCEPT !.executed = TRUE, !.wrote = ended # "template_missing"]

\* [success, value] of the JSON that get_parameter returns
get_parameter(state, parameter_type, parameter_name, reactor_index) ==
  LET found(value) == [success |-> TRUE, value |-> value]
      missing == [success |-> FALSE, value |-> PyNone]
  IN
  IF parameter_type = "feedstock" THEN
    IF IsEmpty(state.influent_values) THEN missing
    ELSE IF dict_get(state.influent_values, parameter_name) # PyNone
    THEN found(dict_get(state.influent_values, parameter_name))
    ELSE IF state.cmps # None /\ parameter_name \in state.cmps.IDs
    THEN found(PyNum(FZero))
    ELSE missing
  ELSE IF parameter_type = "kinetic" THEN
    IF IsEmpty(state.kinetic_params) THEN missing
    ELSE IF dict_get(state.kinetic_params, parameter_name) # PyNone
    THEN found(dict_get(state.kinetic_params, parameter_name))
    ELSE missing
  ELSE IF parameter_type = "reactor" THEN
    IF reactor_index = <<>> \/ ~(1 <= reactor_index[1] /\ reactor_index[1] <= Len(state.sim_params))
    THEN missing
    ELSE IF parameter_name \notin {"Temp", "HRT", "method"} THEN missing
    ELSE IF parameter_name = "method"
    THEN found(PyStr(state.sim_params[reactor_index[1]].method))
    ELSE IF parameter_name = "Temp"
    THEN found(PyNum(state.sim_params[reactor_index[1]].Temp))
    ELSE found(PyNum(state.sim_params[reactor_index[1]].HRT))
  ELSE IF parameter_type = "flow" THEN
    IF parameter_name = "Q" THEN found(PyNum(state.Q))
    ELSE IF parameter_name = "simulation_time" THEN found(PyNum(state.simulation_time))
    ELSE IF parameter_name = "t_step" THEN found(PyNum(state.t_step))
    ELSE missing
  ELSE missing

set_parameter(state, parameter_type, parameter_name, value, reactor_index) ==
  LET numeric == parameter_type # "reactor" \/ parameter_name # "method"
      processed_value ==
        IF numeric /\ value.t = "str" /\ float(value.s).has
        THEN PyNum(float(value.s).v) ELSE value
      IsNumber == processed_value.t = "num"
      refused == Response(state, FALSE, "False")
      \* "... parameter '{parameter_name}' set to {processed_value}. Results cleared."
      set(changed) ==
        [Response(ClearResults(changed), TRUE, "True") EXCEPT !.message =
           [type |-> parameter_type, name |-> parameter_name,
            value |-> processed_value, index |-> reactor_index]]
  IN
  IF numeric /\ value.t \notin {"str", "num"} THEN Response(state, FALSE, "absent")
  ELSE IF parameter_type = "feedstock" THEN
    IF ~IsNumber THEN refused
    ELSE IF FLt(processed_value.x, FZero) THEN refused
    ELSE set([state EXCEPT !.influent_values[parameter_name] = Entry(processed_value.x)])
  ELSE IF parameter_type = "kinetic" THEN
    IF ~IsNumber THEN refused
    ELSE set([state EXCEPT !.kinetic_params[parameter_name] = Entry(processed_value.x),
                           !.use_kinetics = TRUE])
  ELSE IF parameter_type = "reactor" THEN
    IF reactor_index = <<>> \/ ~(1 <= reactor_index[1] /\ reactor_index[1] <= Len(state.sim_params))
    THEN refused
    ELSE IF parameter_name \notin {"Temp", "HRT", "method"} THEN refused
    ELSE IF parameter_name = "method" THEN
      IF processed_value.t # "str" THEN refused
      ELSE set([state EXCEPT !.sim_params[reactor_index[1]].method = processed_value.s])
    ELSE IF ~IsNumber THEN refused
    ELSE IF parameter_name = "Temp" /\ ~(FLe(Num(27315, 0 - 2), processed_value.x)
                                          /\ FLe(processed_value.x, Num(37315, 0 - 2)))
    THEN set([state EXCEPT !.sim_params[reactor_index[1]].Temp = processed_value.x])
    ELSE IF parameter_name = "HRT" /\ FLe(processed_value.x, FZero) THEN refused
    ELSE IF parameter_name = "Temp"
    THEN set([state EXCEPT !.sim_params[reactor_index[1]].Temp = processed_value.x])
    ELSE set([state EXCEPT !.sim_params[reactor_index[1]].HRT = processed_value.x])
  ELSE IF parameter_type = "flow" THEN
    IF parameter_name \notin {"Q", "simulation_time", "t_step"} THEN refused
    ELSE IF ~IsNumber THEN refused
    ELSE IF FLe(processed_value.x, FZero) THEN refused
    ELSE IF parameter_name = "Q" THEN set([state EXCEPT !.Q = processed_value.x])
    ELSE IF parameter_name = "simulation_time"
    THEN set([state EXCEPT !.simulation_time = processed_value.x])
    ELSE set([state EXCEPT !.t_step = processed_value.x])
  ELSE refused

\* the arguments that callers send
Indices == {0, 1, 2, 4}
Parameters == {<<"feedstock", "S_su">>, <<"kinetic", "Y_su">>, <<"reactor", "Temp">>,
               <<"reactor", "HRT">>, <<"reactor", "method">>, <<"reactor", "Q">>,
               <<"flow", "Q">>, <<"flow", "simulation_time">>, <<"flow", "t_step">>,
               <<"flow", "Temp">>, <<"volume", "Q">>}
\* what get_parameter is asked for
Queries == Parameters \cup {<<"feedstock", "S_IN">>, <<"kinetic", "S_su">>}
\* <<flow_rate, simulation_time, time_step>>
FlowCalls == {<<Num(300, 0), Num(300, 0), Num(25, 0 - 1)>>,
              <<Num(0 - 1, 0), Num(300, 0), Num(25, 0 - 1)>>,
              <<Num(300, 0), Num(0 - 1, 0), Num(25, 0 - 1)>>,
              <<Num(300, 0), Num(300, 0), Num(0 - 1, 0)>>,
              <<Num(300, 0), Num(25, 0 - 1), Num(300, 0)>>}
\* <<reactor_index, temperature, hrt, integration_method>>
ReactorCalls == {<<1, Num(300, 0), Num(25, 0 - 1), "RK45">>,
                 <<0, Num(300, 0), Num(25, 0 - 1), "RK45">>,
                 <<4, Num(300, 0), Num(25, 0 - 1), "RK45">>,
                 <<1, Num(0 - 1, 0), Num(25, 0 - 1), "RK45">>,
                 <<1, Num(300, 0), Num(0 - 1, 0), "RK45">>,
                 <<1, Num(300, 0), Num(25, 0 - 1), "Euler">>}
\* <<parameter_type, parameter_name, value, reactor_index>>
SetCalls == {<<"feedstock", "S_su", PyNum(Num(300, 0)), <<>>>>,
             <<"feedstock", "S_su", PyNum(Num(0 - 1, 0)), <<>>>>,
             <<"feedstock", "S_su", PyStr("RK45"), <<>>>>,
             <<"feedstock", "S_su", PyNone, <<>>>>,
             <<"kinetic", "Y_su", PyStr("2.5"), <<>>>>,
             <<"reactor", "Temp", PyNum(Num(300, 0)), <<1>>>>,
             <<"reactor", "Temp", PyNum(Num(300, 0)), <<>>>>,
             <<"reactor", "HRT", PyNum(Num(0 - 1, 0)), <<1>>>>,
             <<"reactor", "HRT", PyStr("2.5"), <<4>>>>,
             <<"reactor", "method", PyStr("RK45"), <<1>>>>,
             <<"reactor", "method", PyNum(Num(300, 0)), <<1>>>>,
             <<"reactor", "Q", PyNum(Num(300, 0)), <<1>>>>,
             <<"flow", "Q", PyNum(Num(300, 0)), <<>>>>,
             <<"flow", "Q", PyStr("2.5"), <<>>>>,
             <<"flow", "Q", PyNum(Num(0 - 1, 0)), <<>>>>,
             <<"flow", "simulation_time", PyNum(Num(300, 0)), <<>>>>,
             <<"flow", "t_step", PyStr("2.5"), <<>>>>,
             <<"flow", "Temp", PyNum(Num(300, 0)), <<>>>>,
             <<"volume", "Q", PyNum(Num(300, 0)), <<>>>>}
Failing == {{}, {1}, {2}, {1, 2, 3}}
StreamTypes == {[prefix |-> "influent", number |-> 0],
                [prefix |-> "effluent", number |-> 1],
                [prefix |-> "biogas", number |-> 2],
                [prefix |-> "effluent", number |-> 4],
                [prefix |-> "sludge", number |-> 0]}
Elements == {"N", "K"}
Endings == {"rendered", "template_missing", "execution_error", "conversion_failed"}

\* tool calls made on the server
MaxCalls == 4


(* ------------------------------------------------------------------ *)
(* State machine                                                       *)
(* ------------------------------------------------------------------ *)
VARIABLES
  streams,   \* the WasteStream objects
  outcome,   \* per stream, how the last call on it went
  updates,   \* per stream, the calls made on it
  pc,        \* per caller, the line its call of update_ph_and_alkalinity is at
  frame,     \* per caller, the local variables of its call
  properties,        \* per stream, what analyze_liquid_stream returned for it
  simulation_state,  \* the server's global ADM1SimulationState
  reply,             \* the last tool called on the server and what it returned
  calls,             \* the tool calls made on the server
  reports,           \* the generate_report calls that wrote into OUTPUT_DIR
  history,           \* the tools that have returned since the last reset
  unrun              \* the scenarios that no run has brought to an end with
                     \* success since the last set_parameter that succeeded

serverVars == <<simulation_state, reply, calls, reports, history, unrun>>

vars == <<streams, outcome, updates, pc, frame, properties, serverVars>>

NotCalled == [route |-> "none", raised |-> "none", status |-> "-", h |-> FZero]

\* the local variables components_molarity, pH and alk before they are set
NoFrame == [components_molarity |-> [comp_id \in required_comps |-> NoEntry],
            pH |-> FZero, alk |-> FZero]

\* analyze_liquid_stream has not been called on the stream
NotAnalysed == [success |-> FALSE, basic |-> [pH |-> FZero, alkalinity |-> FZero]]

\* no call has begun
NoCalls ==
  /\ outcome = [id \in StreamIDs |-> NotCalled]
  /\ updates = [id \in StreamIDs |-> 0]
  /\ pc = [id \in StreamIDs |-> "l289"]
  /\ frame = [id \in StreamIDs |-> NoFrame]
  /\ properties = [id \in StreamIDs |-> NotAnalysed]

NoReply == [tool |-> "none", success |-> FALSE, results_cleared |-> "absent",
            message |-> NoMessage, results |-> <<>>, executed |-> FALSE]

\* the server as it starts
Idle ==
  /\ simulation_state = [ADM1SimulationState EXCEPT !.cmps = create_adm1_cmps]
  /\ reply = NoReply
  /\ calls = 0
  /\ reports = 0
  /\ history = {}
  /\ unrun = {}

Init ==
  /\ streams \in [StreamIDs -> Fresh]
  /\ NoCalls
  /\ Idle

\* update_ph_and_alkalinity(streams[id]) is called
Returns(id, done) ==
  /\ streams' = [streams EXCEPT ![id] = done.stream]
  /\ outcome' = [outcome EXCEPT ![id] =
                   [route |-> done.route, raised |-> done.raised,
                    status |-> done.status, h |-> done.h]]

Update(id) ==
  /\ updates[id] < MaxUpdates
  /\ Returns(id, Call(streams[id]))
  /\ updates' = [updates EXCEPT ![id] = @ + 1]
  /\ UNCHANGED <<pc, frame, properties, serverVars>>

Next == \E id \in StreamIDs : Update(id)

Spec == Init /\ [][Next]_vars

(* ------------------------------------------------------------------ *)
(* Two callers, each making one call of update_ph_and_alkalinity on    *)
(* its own stream, a line or a run of lines on local variables at a    *)
(* time.  pc[id] names the line the call on streams[id] is at.         *)
(* ------------------------------------------------------------------ *)
\* variant: the local variables kept in one place for all calls
shared_frame(id) == CHOOSE one \in StreamIDs : TRUE

\* the local variables of the call made on streams[id]
Frame(id) == id

\* lines 311-315 on the local components_molarity: what solve_ph, the
\* logarithm and calculate_alkalinity give, [raised, pH, alk]
SolvePath(c) ==
  With([done \in {(CHOOSE call \in FreshCalls :
                      call[1].phase = "l" /\ MolaritiesOf(call[1].iconc) = c)[2]} |->
    [raised |-> done.raised, pH |-> done.stream.pH, alk |-> done.stream.SAlk]])

Goto(id, line) == pc' = [pc EXCEPT ![id] = line]

\* if stream.phase != 'l'
L289(id) ==
  /\ pc[id] = "l289"
  /\ Goto(id, IF not_liquid(streams[id]) THEN "l291" ELSE "l302")
  /\ UNCHANGED <<streams, frame>>

\* stream._pH = 7.0
L291(id) ==
  /\ pc[id] = "l291"
  /\ streams' = [streams EXCEPT ![id].pH = Num(7, 0)]
  /\ Goto(id, "l292")
  /\ UNCHANGED frame

\* stream._SAlk = 0.0; return stream
L292(id) ==
  /\ pc[id] = "l292"
  /\ streams' = [streams EXCEPT ![id].SAlk = FZero]
  /\ Goto(id, "done")
  /\ UNCHANGED frame

\* components_molarity = get_component_molarities(stream)
\* if not components_molarity
L302(id) ==
  /\ pc[id] = "l302"
  /\ frame' = [frame EXCEPT ![Frame(id)].components_molarity =
                                MolaritiesOf(streams[id].iconc)]
  /\ Goto(id, IF IsEmptyDict(frame'[Frame(id)].components_molarity)
               THEN "l306" ELSE "l311")
  /\ UNCHANGED streams

\* stream._pH = 7.0
L306(id) ==
  /\ pc[id] = "l306"
  /\ streams' = [streams EXCEPT ![id].pH = Num(7, 0)]
  /\ Goto(id, "l307")
  /\ UNCHANGED frame

\* stream._SAlk = 2.5 * 1000; return stream
L307(id) ==
  /\ pc[id] = "l307"
  /\ streams' = [streams EXCEPT ![id].SAlk = FMul(Num(25, 0 - 1), Num(1000, 0))]
  /\ Goto(id, "done")
  /\ UNCHANGED frame

\* h_ion = solve_ph(...); pH = ...; alk = calculate_alkalinity(...)
L311(id) ==
  /\ pc[id] = "l311"
  /\ \E sol \in {SolvePath(frame[Frame(id)].components_molarity)} :
        IF sol.raised # "none"
        THEN Goto(id, "raised") /\ UNCHANGED frame
        ELSE /\ frame' = [frame EXCEPT ![Frame(id)].pH = sol.pH,
                                         ![Frame(id)].alk = sol.alk]
             /\ Goto(id, "l330")
  /\ UNCHANGED streams

\* stream._pH = pH
L330(id) ==
  /\ pc[id] = "l330"
  /\ streams' = [streams EXCEPT ![id].pH = frame[Frame(id)].pH]
  /\ Goto(id, "l331")
  /\ UNCHANGED frame

\* stream._SAlk = alk; return stream
L331(id) ==
  /\ pc[id] = "l331"
  /\ streams' = [streams EXCEPT ![id].SAlk = frame[Frame(id)].alk]
  /\ Goto(id, "done")
  /\ UNCHANGED frame

Line(id) ==
  \/ L289(id) \/ L291(id) \/ L292(id) \/ L302(id) \/ L306(id)
  \/ L307(id) \/ L311(id) \/ L330(id) \/ L331(id)

NextLine ==
  \E id \in StreamIDs :
    Line(id) /\ UNCHANGED <<outcome, updates, properties, serverVars>>

Concurrent == Init /\ [][NextLine]_vars

(* ------------------------------------------------------------------ *)
(* analyze_liquid_stream of stream_analysis.py, on the streams         *)
(* ------------------------------------------------------------------ *)
\* the names that stream_analysis.py binds at module level
stream_analysis_names ==
  {"calculate_effluent_COD", "calculate_gas_properties", "calculate_biomass_yields",
   "CALCULATE_PH_AVAILABLE", "update_ph_alk_fixed", "sys", "os", "np", "parent_dir",
   "adm1_dir", "safe_get", "safe_composite", "get_component_conc",
   "analyze_liquid_stream", "analyze_gas_stream", "analyze_biomass_yields",
   "calculate_charge_balance"}

\* the try block of lines 212-227: the stream as it leaves it.  The test
\* isinstance(stream, WasteStream) looks the name WasteStream up and raises
\* NameError where the module does not bind it; every stream here is a
\* WasteStream with components.
recompute(stream) ==
  IF "WasteStream" \notin stream_analysis_names
  THEN annotate(stream, Num(7, 0), FZero)
  ELSE With([done \in {Call(NewStream(stream.phase, stream.iconc))} |->
         IF done.raised # "none" THEN annotate(stream, Num(7, 0), FZero)
         ELSE annotate(stream, done.stream.pH, done.stream.SAlk)])

\* the stream as the call leaves it and the "success" and "basic" keys of
\* the dict it returns, without the flow
analyze_liquid_stream(stream) ==
  With([after \in {recompute(stream)} |->
    [stream |-> after,
     result |-> [success |-> TRUE,
                 basic |-> [pH |-> after.pH,
                            alkalinity |-> FMul(after.SAlk, Num(50, 0))]]]])

AnalyzeLiquidStream(id) ==
  /\ \E analysed \in {analyze_liquid_stream(streams[id])} :
       /\ streams' = [streams EXCEPT ![id] = analysed.stream]
       /\ properties' = [properties EXCEPT ![id] = analysed.result]
  /\ UNCHANGED <<outcome, updates, pc, frame, serverVars>>

NextAnalysis == \E id \in StreamIDs : AnalyzeLiquidStream(id)

Analysis == Init /\ [][NextAnalysis]_vars

(* ------------------------------------------------------------------ *)
(* Tool calls on the server, one at a time                             *)
(* ------------------------------------------------------------------ *)
\* wrapper: the tool has returned response; the response is stored in the
\* global as it is bound after the call
capture_response(func, response) ==
  /\ calls < MaxCalls
  /\ simulation_state' = add_tool_response(response.state, func)
  /\ reply' = [tool |-> func, success |-> response.success,
               results_cleared |-> response.results_cleared,
               message |-> response.message,
               results |-> response.results,
               executed |-> response.executed]
  /\ calls' = calls + 1
  /\ reports' = IF response.wrote THEN reports + 1 ELSE reports
  /\ history' = IF func = "reset_simulation" THEN {} ELSE history \cup {func}
  /\ unrun' = IF func = "set_parameter" /\ response.success
              THEN DOMAIN response.state.sim_params
              ELSE IF func = "run_simulation_tool"
              THEN unrun \ {i \in DOMAIN response.results : response.results[i]}
              ELSE unrun
  /\ UNCHANGED <<streams, outcome, updates, pc, frame, properties>>

DescribeFeedstock ==
  \E recommended \in BOOLEAN :
    capture_response("describe_feedstock", describe_feedstock(simulation_state, recommended))

ValidateFeedstockChargeBalance ==
  \E loads \in BOOLEAN, calculated \in BOOLEAN :
    capture_response("validate_feedstock_charge_balance",
      validate_feedstock_charge_balance(simulation_state, loads, calculated))

DescribeKinetics ==
  \E recommended \in BOOLEAN :
    capture_response("describe_kinetics", describe_kinetics(simulation_state, recommended))

SetFlowParameters ==
  \E sent \in FlowCalls :
    capture_response("set_flow_parameters",
      set_flow_parameters(simulation_state, sent[1], sent[2], sent[3]))

SetReactorParameters ==
  \E sent \in ReactorCalls :
    capture_response("set_reactor_parameters",
      set_reactor_parameters(simulation_state, sent[1], sent[2], sent[3], sent[4]))

RunSimulationTool(failing) ==
  capture_response("run_simulation_tool", run_simulation_tool(simulation_state, failing))

GetStreamProperties(stream_type, analysed) ==
  capture_response("get_stream_properties",
    get_stream_properties(simulation_state, stream_type, analysed))

GetInhibitionAnalysis(simulation_index, analysed) ==
  capture_response("get_inhibition_analysis",
    get_inhibition_analysis(simulation_state, simulation_index, analysed))

GetBiomassYields(simulation_index, analysed) ==
  capture_response("get_biomass_yields",
    get_biomass_yields(simulation_state, simulation_index, analysed))

CheckNutrientBalance(simulation_index, element, analysed) ==
  capture_response("check_nutrient_balance",
    check_nutrient_balance(simulation_state, simulation_index, element, analysed))

ResetSimulation ==
  capture_response("reset_simulation", reset_simulation(simulation_state))

GenerateReport(simulation_index, ended) ==
  capture_response("generate_report",
    generate_report(simulation_state, simulation_index, ended))

GetParameter ==
  \E parameter \in Queries :
    \E reactor_index \in IF parameter[1] = "reactor" THEN {<<>>, <<1>>, <<4>>}
                                                    ELSE {<<>>} :
      capture_response("get_parameter",
        Response(simulation_state,
                 get_parameter(simulation_state, parameter[1], parameter[2],
                               reactor_index).success, "absent"))

SetParameter ==
  \E sent \in SetCalls :
    capture_response("set_parameter",
      set_parameter(simulation_state, sent[1], sent[2], sent[3], sent[4]))

NextTool ==
  \/ DescribeFeedstock
  \/ ValidateFeedstockChargeBalance
  \/ DescribeKinetics
  \/ SetFlowParameters
  \/ SetReactorParameters
  \/ \E failing \in Failing : RunSimulationTool(failing)
  \/ \E stream_type \in StreamTypes, analysed \in BOOLEAN :
       GetStreamProperties(stream_type, analysed)
  \/ \E simulation_index \in Indices, analysed \in BOOLEAN :
       GetInhibitionAnalysis(simulation_index, analysed)
  \/ \E simulation_index \in Indices, analysed \in BOOLEAN :
       GetBiomassYields(simulation_index, analysed)
  \/ \E simulation_index \in Indices, element \in Elements, analysed \in BOOLEAN :
       CheckNutrientBalance(simulation_index, element, analysed)
  \/ ResetSimulation
  \/ \E simulation_index \in Indices, ended \in Endings :
       GenerateReport(simulation_index, ended)
  \/ GetParameter
  \/ SetParameter

InitServer ==
  /\ streams = [id \in StreamIDs |-> NewStream("l", test_conc)]
  /\ NoCalls
  /\ Idle

Server == InitServer /\ [][NextTool]_vars

(* ------------------------------------------------------------------ *)
(* Properties                                                          *)
(* ------------------------------------------------------------------ *)
Called(id) == outcome[id].route # "none"

Liquid(id) == streams[id].phase = "l"

Annotation(id, pH, alk) == FEq(streams[id].pH, pH) /\ FEq(streams[id].SAlk, alk)

\* the charge balance at the two ends of the bracket, per feed
Ends == {<<iconc, [lo |-> acid_base_rxn(xa, get_component_molarities(iconc), Ka),
                   hi |-> acid_base_rxn(xb, get_component_molarities(iconc), Ka)]>> :
           iconc \in Feeds}

NoSignChange(iconc) ==
  \E pair \in Ends :
     /\ pair[1] = iconc
     /\ IsFinite(pair[2].lo) /\ ~IsZero(pair[2].lo)
     /\ IsFinite(pair[2].hi) /\ ~IsZero(pair[2].hi)
     /\ SignBit(pair[2].lo) = SignBit(pair[2].hi)

\* C1: after a call on a stream whose phase is not 'l' the stream has pH 7.0
\* and alkalinity 0.0, and the call returned from the phase test, without
\* reading concentrations or running the solver, whatever the stream holds.
C1_NonLiquid ==
  \A id \in StreamIDs :
     Called(id) /\ ~Liquid(id) =>
        /\ Annotation(id, Num(7, 0), FZero)
        /\ outcome[id].route = "nonliquid"
        /\ outcome[id].raised = "none"

\* a gas stream holding the concentrations on which the solver does not
\* converge has been called and carries pH 7, alkalinity 0
C1_Witness ==
  \E id \in StreamIDs :
     /\ Called(id) /\ streams[id].phase = "g" /\ streams[id].iconc = runaway
     /\ Annotation(id, Num(7, 0), FZero)

\* C2: when the charge balance has the same sign at 1e-14 and at 1, solve_ph
\* raises nothing and returns 1e-7, and the stream is annotated with pH 7.
C2_NoSignChange ==
  \A id \in StreamIDs :
     Called(id) /\ Liquid(id) /\ NoSignChange(streams[id].iconc) =>
        /\ outcome[id].raised = "none"
        /\ FEq(outcome[id].h, Num(1, 0 - 7))
        /\ FEq(streams[id].pH, Num(7, 0))

C2_Witness ==
  \E id \in StreamIDs :
     /\ Called(id) /\ Liquid(id) /\ streams[id].iconc = acid
     /\ NoSignChange(acid)
     /\ outcome[id].route = "fallback"
     /\ FEq(streams[id].pH, Num(7, 0))

\* C3: when brenth has used its 100 iterations without converging, no
\* exception leaves solve_ph or update_ph_and_alkalinity, 1e-7 is
\* substituted and the stream is annotated with pH 7.
C3_BudgetExhausted ==
  \A id \in StreamIDs :
     outcome[id].status = "converr" =>
        /\ outcome[id].raised = "none"
        /\ FEq(outcome[id].h, Num(1, 0 - 7))
        /\ FEq(streams[id].pH, Num(7, 0))
        /\ outcome[id].route = "fallback"

\* C4: a stream annotated through the except branch of solve_ph differs, in
\* what solve_ph returned or in what was written on the stream, from every
\* stream whose solve succeeded.
C4_Distinguishable ==
  \A id \in StreamIDs : \A other \in StreamIDs :
     outcome[id].route = "fallback" /\ outcome[other].route = "solved" =>
        ~ /\ FEq(outcome[id].h, outcome[other].h)
          /\ FEq(streams[id].pH, streams[other].pH)
          /\ FEq(streams[id].SAlk, streams[other].SAlk)

AllAbsent(iconc) == \A comp_id \in required_comps : iconc[comp_id].kind = "absent"

AllZero(iconc) ==
  \A comp_id \in required_comps : IsZero(Get(Concentration(iconc[comp_id])))

\* C5 (as the code has it): a call on a liquid stream takes the default
\* return, pH 7.0 and alkalinity 2500 without the solver, exactly when none
\* of the eight required components is among the stream's components; with
\* a required component present, at concentration zero too, the solver runs.
C5_NoComponents ==
  \A id \in StreamIDs :
     Called(id) /\ Liquid(id) =>
        /\ AllAbsent(streams[id].iconc) =>
              /\ Annotation(id, Num(7, 0), Num(2500, 0))
              /\ outcome[id].route = "default"
        /\ ~AllAbsent(streams[id].iconc) =>
              outcome[id].route \in {"solved", "fallback", "raised"}

C5_Witness ==
  \E id \in StreamIDs :
     /\ Called(id) /\ Liquid(id) /\ streams[id].iconc = unmodelled
     /\ Annotation(id, Num(7, 0), Num(2500, 0))
     /\ outcome[id].route = "default"

\* C5 as stated: whenever all eight extracted concentrations are zero, the
\* components absent or present with concentration zero, a call on a liquid
\* stream leaves pH 7.0 and alkalinity 2500 and does not run the solver.
C5_AllZero ==
  \A id \in StreamIDs :
     Called(id) /\ Liquid(id) /\ AllZero(streams[id].iconc) =>
        /\ Annotation(id, Num(7, 0), Num(2500, 0))
        /\ outcome[id].route = "default"

\* pH values across [0, 14] at which calculate_alkalinity is evaluated
pH_samples == {FZero, Num(43, 0 - 1), Num(7, 0), Num(103, 0 - 1), Num(14, 0)}

\* calculate_alkalinity and its unclamped value, for each feed and sample
Alkalinities ==
  {[raw |-> alk_meq(get_component_molarities(iconc), pH, Ka),
    alk |-> calculate_alkalinity(get_component_molarities(iconc), pH, Ka)] :
     iconc \in Feeds, pH \in pH_samples}

\* C6: calculate_alkalinity returns a value >= 0 for every set of
\* concentrations and every pH in [0, 14], and after any sequence of calls
\* the alkalinity on a stream is >= 0.
C6_NonNegative ==
  /\ \A sample \in Alkalinities : FGe(sample.alk, FZero)
  /\ \A id \in StreamIDs : FGe(streams[id].SAlk, FZero)

\* a solved stream whose alkalinity before the clamp is negative carries 0
C6_Witness ==
  \E id \in StreamIDs :
     /\ outcome[id].route = "solved" /\ streams[id].iconc = blank
     /\ IsZero(streams[id].SAlk)
     /\ FLt(alk_meq(MolaritiesOf(blank), streams[id].pH, Ka), FZero)
     /\ \E sample \in Alkalinities : FLt(sample.raw, FZero) /\ IsZero(sample.alk)

\* C7: a call on a stream that has been called before, its phase and
\* concentrations unchanged since, leaves the pH and the alkalinity the
\* earlier call left.
C7_Idempotent ==
  [][\A id \in StreamIDs :
        Called(id) /\ updates'[id] # updates[id] =>
           /\ streams'[id].pH = streams[id].pH
           /\ streams'[id].SAlk = streams[id].SAlk]_vars

\* the stream of main() has been called twice and was solved
C7_Witness ==
  \E id \in StreamIDs :
     /\ updates[id] = 2 /\ Liquid(id) /\ streams[id].iconc = test_conc
     /\ outcome[id].route = "solved"

\* C8: a call changes nothing but the pH and the alkalinity of the stream it
\* is given: that stream keeps its phase, its components and their
\* concentrations, and every other stream is as it was.
C8_Frame ==
  [][\E id \in StreamIDs :
        /\ updates'[id] # updates[id]
        /\ streams'[id].phase = streams[id].phase
        /\ streams'[id].iconc = streams[id].iconc
        /\ \A other \in StreamIDs \ {id} : streams'[other] = streams[other]]_vars

\* one stream has gone through the solver and has new fields, the other
\* took the default return
C8_Witness ==
  \E id \in StreamIDs : \E other \in StreamIDs :
     /\ outcome[id].route = "solved" /\ streams[id].iconc = test_conc
     /\ ~FEq(streams[id].pH, Num(7, 0))
     /\ outcome[other].route = "default"

Unusable(l) == l.kind # "value" \/ ~IsFinite(l.v)

\* the feed with zero in place of every lookup that fails or is not finite
Zeroed(iconc) ==
  [comp_id \in required_comps |->
     IF iconc[comp_id].kind # "absent" /\ Unusable(iconc[comp_id])
     THEN Value(FZero) ELSE iconc[comp_id]]

\* C9: a required component that is absent, whose lookup fails or whose
\* concentration is NaN or infinite enters the computation as zero: its
\* molarity reads 0, the call leaves what it leaves on the stream with zero
\* in its place, and no lookup error leaves the call.
C9_ZeroContribution ==
  \A id \in StreamIDs :
     /\ \A comp_id \in required_comps :
           Unusable(streams[id].iconc[comp_id]) =>
              IsZero(Get(MolaritiesOf(streams[id].iconc)[comp_id]))
     /\ Called(id) /\ Liquid(id) =>
           /\ outcome[id].raised \notin {"KeyError", "ValueError", "TypeError"}
           /\ \A call \in FreshCalls :
                 /\ call[1].phase = "l"
                 /\ \A comp_id \in required_comps :
                       call[1].iconc[comp_id] = Zeroed(streams[id].iconc)[comp_id]
                 => /\ streams[id].pH = call[2].stream.pH
                    /\ streams[id].SAlk = call[2].stream.SAlk

C9_Witness ==
  \E id \in StreamIDs :
     /\ Called(id) /\ Liquid(id) /\ streams[id].iconc = faulty
     /\ outcome[id].route = "solved"
     /\ \E call \in FreshCalls :
           /\ call[1] = NewStream("l", mended)
           /\ streams[id].pH = call[2].stream.pH
           /\ streams[id].SAlk = call[2].stream.SAlk

Returned(id) == outcome[id].route \in {"solved", "fallback"}

\* C10 (as the code has it): every h that solve_ph returns lies in the
\* closed interval [1e-14, 1], and every pH the solve path writes lies in
\* [0, 14]; the ends are taken when the charge balance is zero there.
C10_InBracket ==
  \A id \in StreamIDs :
     Returned(id) =>
        /\ FLe(Num(1, 0 - 14), outcome[id].h) /\ FLe(outcome[id].h, Num(1, 0))
        /\ FLe(FZero, streams[id].pH) /\ FLe(streams[id].pH, Num(14, 0))

C10_Witness ==
  \E id \in StreamIDs :
     /\ Returned(id) /\ streams[id].iconc = caustic
     /\ FEq(outcome[id].h, Num(1, 0 - 14))
     /\ FEq(streams[id].pH, Num(14, 0))

\* C10 as stated: every h that solve_ph returns lies strictly between 1e-14
\* and 1, and every pH the solve path writes strictly between 0 and 14.
C10_StrictlyInside ==
  \A id \in StreamIDs :
     Returned(id) =>
        /\ FLt(Num(1, 0 - 14), outcome[id].h) /\ FLt(outcome[id].h, Num(1, 0))
        /\ FLt(FZero, streams[id].pH) /\ FLt(streams[id].pH, Num(14, 0))

\* the concentrations answered by the stream are readable and not negative
NonNegative(iconc) ==
  \A comp_id \in required_comps :
     iconc[comp_id].kind = "absent"
     \/ (iconc[comp_id].kind = "value" /\ IsFinite(iconc[comp_id].v)
         /\ FGe(iconc[comp_id].v, FZero))

\* two feeds alike in every component but comp_id, the first with less of it
Less(a, b, comp_id) ==
  /\ \A other \in required_comps \ {comp_id} : a[other] = b[other]
  /\ FLt(Get(MolaritiesOf(a)[comp_id]), Get(MolaritiesOf(b)[comp_id]))

\* C11: all other totals fixed, the h that solve_ph returns is strictly
\* smaller for the larger strong-cation total and strictly larger for the
\* larger strong-anion total, for every pair of nonnegative inputs, those
\* without a sign change in the bracket included.
C11_Monotone ==
  \A id \in StreamIDs : \A other \in StreamIDs :
     /\ Returned(id) /\ Returned(other)
     /\ NonNegative(streams[id].iconc) /\ NonNegative(streams[other].iconc)
     => /\ Less(streams[id].iconc, streams[other].iconc, "S_cat")
              => FGt(outcome[id].h, outcome[other].h)
        /\ Less(streams[id].iconc, streams[other].iconc, "S_an")
              => FLt(outcome[id].h, outcome[other].h)

\* hydrogen ion concentrations across the bracket [1e-14, 1]
Bracket == {xa, Num(1, 0 - 10), Num(1, 0 - 7), Num(1, 0 - 4), Num(1, 0 - 2), xb}

\* acid_base_rxn for each feed at each point of Bracket, computed once
Balances ==
  {<<iconc, h_ion, acid_base_rxn(h_ion, get_component_molarities(iconc), Ka)>> :
     iconc \in Feeds, h_ion \in Bracket}

\* the charge balance of a feed at h_ion
Balance(iconc, h_ion) ==
  IF \E b \in Balances : b[1] = iconc /\ b[2] = h_ion
  THEN (CHOOSE b \in Balances : b[1] = iconc /\ b[2] = h_ion)[3]
  ELSE acid_base_rxn(h_ion, MolaritiesOf(iconc), Ka)

\* the points of the bracket and the h the call on the stream returned
Points(id) == Bracket \cup (IF Returned(id) THEN {outcome[id].h} ELSE {})

C13_Residual ==
  \A id \in StreamIDs :
     outcome[id].route = "solved" =>
        FLe(FAbs(Balance(streams[id].iconc, outcome[id].h)), Num(1, 0 - 8))

\* C14 (as the code has it): the mapping get_component_molarities returns
\* has an entry for exactly those of the eight required components that are
\* among the stream's components; a component the stream does not have has
\* no entry, and reads as zero where the mapping is consulted with get(k, 0).
C14_PresentOnly ==
  \A id \in StreamIDs : \A comp_id \in required_comps :
     /\ MolaritiesOf(streams[id].iconc)[comp_id].has
           <=> streams[id].iconc[comp_id].kind # "absent"
     /\ streams[id].iconc[comp_id].kind = "absent"
           => IsZero(Get(MolaritiesOf(streams[id].iconc)[comp_id]))

\* a stream with strong anions only has been called: the mapping passed to
\* the solver has the entry S_an and no other
C14_Witness ==
  \E id \in StreamIDs :
     /\ Returned(id) /\ streams[id].iconc = sour
     /\ MolaritiesOf(sour).S_an.has
     /\ \A comp_id \in required_comps \ {"S_an"} : ~MolaritiesOf(sour)[comp_id].has

\* C14 as stated: for every stream the mapping has all eight entries.
C14_AllEight ==
  \A id \in StreamIDs : \A comp_id \in required_comps :
     MolaritiesOf(streams[id].iconc)[comp_id].has

\* the mapping went to solve_ph in the call made on the stream
Solver(id) == outcome[id].route \in {"solved", "fallback", "raised"}

\* C15: every value of the mapping that get_component_molarities produces
\* and the solver is given is finite and >= 0, whatever the lookups on the
\* stream answer, negative values included.
C15_FiniteNonNegative ==
  \A id \in StreamIDs :
     Solver(id) =>
        \A comp_id \in required_comps :
           /\ IsFinite(Get(MolaritiesOf(streams[id].iconc)[comp_id]))
           /\ FGe(Get(MolaritiesOf(streams[id].iconc)[comp_id]), FZero)

\* strong-ion totals, in eq/L, put in the place of those of a mapping
StrongIons == {NoEntry, Entry(Num(4, 0 - 2)), Entry(Num(2, 0))}

\* 1000 * ([HCO3-] + 2*[CO3--] + [NH3] + [Ac-] + [Pro-] + [Bu-] + [Va-]
\*         + [OH-] - [H+]) at h = 10^-pH, not less than 0
BufferAlkalinity(c, pH) ==
  With([h \in {Pow10(FNeg(pH))} |->
  With([hco3 \in {Ion(Get(c.S_IC), Ka[3], h)} |->
  With([terms \in {<<hco3, FMul(Num(2, 0), FDiv(FMul(hco3, Ka2_co2), h)),
                     Ion(Get(c.S_IN), Ka[2], h), Ion(Get(c.S_ac), Ka[4], h),
                     Ion(Get(c.S_pro), Ka[5], h), Ion(Get(c.S_bu), Ka[6], h),
                     Ion(Get(c.S_va), Ka[7], h), FDiv(Ka[1], h), FNeg(h)>>} |->
    Max0(FMul(FAdd(FAdd(FAdd(FAdd(FAdd(FAdd(FAdd(FAdd(
           terms[1], terms[2]), terms[3]), terms[4]), terms[5]), terms[6]),
           terms[7]), terms[8]), terms[9]), Num(1000, 0)))])])])

\* For each stream a first solve path call leaves: what calculate_alkalinity
\* returns at the pH on the stream for the stream's mapping with each
\* choice of strong-ion totals, and the buffer alkalinity at that pH
StrongIonVariants ==
  {[stream |-> call[2].stream,
    alks   |-> {calculate_alkalinity([MolaritiesOf(call[1].iconc)
                                        EXCEPT !.S_cat = cat, !.S_an = an],
                                     call[2].stream.pH, Ka) :
                  cat \in StrongIons, an \in StrongIons},
    buffer |-> BufferAlkalinity(MolaritiesOf(call[1].iconc), call[2].stream.pH)] :
     call \in {made \in FreshCalls : made[2].route \in {"solved", "fallback"}}}

\* C16: calculate_alkalinity returns max(0, 1000 * ([HCO3-] + 2*[CO3--] +
\* [NH3] + [Ac-] + [Pro-] + [Bu-] + [Va-] + [OH-] - [H+])), the species
\* taken at h = 10^-pH; the strong-ion totals S_cat and S_an do not enter:
\* mappings that differ in them only have the same alkalinity at one pH.
C16_BufferSpecies ==
  \A id \in StreamIDs :
     Returned(id) =>
        \E variant \in StrongIonVariants :
           /\ variant.stream = streams[id]
           /\ variant.alks = {streams[id].SAlk}
           /\ variant.buffer = streams[id].SAlk

\* the stream of main(), strong ions 0.04 and 0.02 eq/L, has been solved and
\* carries a positive alkalinity
C16_Witness ==
  \E id \in StreamIDs :
     /\ outcome[id].route = "solved" /\ streams[id].iconc = test_conc
     /\ FGt(streams[id].SAlk, FZero)
     /\ \E variant \in StrongIonVariants :
           variant.stream = streams[id] /\ variant.alks = {streams[id].SAlk}

\* the stream as one call made alone on the stream as constructed leaves it
Alone(id) == Call(NewStream(streams[id].phase, streams[id].iconc)).stream

\* C17: two calls on two distinct streams, their lines interleaved in any
\* order, leave each stream with the pH and alkalinity the call made alone
\* leaves; a step of one call changes neither the other stream nor the
\* local variables of the other call.
C17_Interleaving ==
  /\ [](\A id \in StreamIDs :
          pc[id] \in {"done", "raised"} =>
             /\ streams[id].pH = Alone(id).pH
             /\ streams[id].SAlk = Alone(id).SAlk)
  /\ [][\A id \in StreamIDs : \A other \in StreamIDs \ {id} :
          pc'[id] # pc[id] =>
             /\ streams'[other] = streams[other]
             /\ frame'[other] = frame[other]]_vars

\* both calls are between their two writes: each stream carries the pH of
\* its own solve and still the alkalinity it was constructed with
C17_Witness ==
  /\ pc = [id \in StreamIDs |-> "l331"]
  /\ streams["ws1"].iconc = test_conc /\ streams["ws2"].iconc = sour
  /\ \A id \in StreamIDs :
        /\ streams[id].pH = Alone(id).pH
        /\ streams[id].SAlk = Num(25, 0 - 1)
        /\ streams[id].SAlk # Alone(id).SAlk

\* C18: whenever set_parameter returns success = true, for a feedstock, a
\* kinetic, a reactor or a flow parameter, results_cleared is true and every
\* entry of sim_results is None right after the call.
C18_ResultsCleared ==
  (reply.tool = "set_parameter" /\ reply.success) =>
     /\ reply.results_cleared = "True"
     /\ \A i \in DOMAIN simulation_state.sim_results :
          simulation_state.sim_results[i] = None

\* a report was written from the results of a run, and a set_parameter call
\* made after it has succeeded
C18_Witness ==
  /\ reply.tool = "set_parameter" /\ reply.success
  /\ reports > 0
  /\ simulation_state.tool_responses["run_simulation_tool"] > 0
  /\ simulation_state.sim_results = <<None, None, None>>

\* C19: after reset_simulation, whatever tool calls came before it, Q = 170.0,
\* simulation_time = 150.0, t_step = 0.1, the three scenarios have Temp 308.15,
\* HRT 30, 45 and 60 and method BDF, sim_results is all None, influent_values
\* and kinetic_params are empty and use_kinetics is false.
C19_Defaults ==
  reply.tool = "reset_simulation" =>
     /\ simulation_state.Q = Num(170, 0)
     /\ simulation_state.simulation_time = Num(150, 0)
     /\ simulation_state.t_step = Num(1, 0 - 1)
     /\ Len(simulation_state.sim_params) = 3
     /\ \A i \in 1..3 :
          /\ simulation_state.sim_params[i].Temp = Num(30815, 0 - 2)
          /\ simulation_state.sim_params[i].HRT = Num(15 * (i + 1), 0)
          /\ simulation_state.sim_params[i].method = "BDF"
     /\ simulation_state.sim_results = <<None, None, None>>
     /\ \A k \in Keys : ~simulation_state.influent_values[k].has
     /\ \A k \in Keys : ~simulation_state.kinetic_params[k].has
     /\ simulation_state.use_kinetics = FALSE

\* reset_simulation has returned after a run from which a report was written
C19_Witness ==
  /\ reply.tool = "reset_simulation"
  /\ reports > 0
  /\ calls = MaxCalls

\* the three conditions of generate_report, on the state before the call
Reportable(simulation_index) ==
  /\ simulation_index \in 1..3
  /\ "run_simulation_tool" \in history
  /\ simulation_state.sim_results[simulation_index] # None

\* C20: generate_report goes on to execute the notebook only if
\* simulation_index is in 1..3, a run_simulation_tool response has been
\* recorded since the last reset and the scenario's entry of sim_results is
\* not None; when one of the three fails it returns success = false and
\* writes no report file.
C20_Guarded ==
  [][\A simulation_index \in Indices, ended \in Endings :
       GenerateReport(simulation_index, ended) =>
          /\ reply'.executed => Reportable(simulation_index)
          /\ ~Reportable(simulation_index) =>
               ~reply'.success /\ ~reply'.executed /\ reports' = reports]_vars

\* generate_report has been refused, on a server that has run the scenarios
\* and has written a report before
C20_Witness ==
  /\ reply.tool = "generate_report"
  /\ ~reply.success /\ ~reply.executed
  /\ "run_simulation_tool" \in history
  /\ reports = 1

\* C21: right after set_parameter(type, name, value, reactor_index) has
\* returned success, get_parameter(type, name, reactor_index) returns success
\* with the value that was stored, the float of a numeric string; whatever
\* successful set_parameter calls came before, the last one is the one read.
C21_RoundTrip ==
  (reply.tool = "set_parameter" /\ reply.success) =>
     get_parameter(simulation_state, reply.message.type, reply.message.name,
                   reply.message.index)
       = [success |-> TRUE, value |-> reply.message.value]

\* the second set_parameter call has stored the float of the string "2.5" as
\* a flow parameter
C21_Witness ==
  /\ reply.tool = "set_parameter" /\ reply.success
  /\ reply.message.type = "flow"
  /\ reply.message.value = PyNum(Num(25, 0 - 1))
  /\ simulation_state.tool_responses["set_parameter"] = 2
  /\ get_parameter(simulation_state, "flow", reply.message.name, <<>>).value
       = PyNum(Num(25, 0 - 1))

\* C22: run_simulation_tool with influent values runs every scenario in
\* order; a scenario that raises gets None in sim_results and a failed entry
\* and the later scenarios still run; afterwards sim_results[i] is not None
\* exactly for the scenarios that succeeded, and success is true iff at
\* least one scenario succeeded.
C22_EveryScenario ==
  [][\A failing \in Failing :
       (RunSimulationTool(failing) /\ ~IsEmpty(simulation_state.influent_values)) =>
          /\ Len(reply'.results) = Len(simulation_state.sim_params)
          /\ \A i \in DOMAIN simulation_state.sim_params :
               /\ reply'.results[i] <=> i \notin failing
               /\ simulation_state'.sim_results[i] # None <=> i \notin failing
          /\ reply'.success <=>
               \E i \in DOMAIN simulation_state.sim_params : i \notin failing]_vars

\* a run in which the second scenario raised and the third still ran
C22_Witness ==
  /\ reply.tool = "run_simulation_tool"
  /\ reply.success
  /\ reply.results = <<TRUE, FALSE, TRUE>>
  /\ simulation_state.sim_results[2] = None
  /\ simulation_state.sim_results[3] # None

Computed(id) ==
  With([done \in {Call(NewStream(streams[id].phase, streams[id].iconc))} |->
    IF done.raised # "none" THEN [pH |-> Num(7, 0), alkalinity |-> FZero]
    ELSE [pH |-> done.stream.pH, alkalinity |-> FMul(done.stream.SAlk, Num(50, 0))]])

\* C24: for a liquid WasteStream with components, analyze_liquid_stream
\* recomputes pH and alkalinity with update_ph_and_alkalinity and reports
\* basic.pH equal to the computed pH and basic.alkalinity equal to 50 times
\* the computed alkalinity; pH 7.0 and alkalinity 0.0 are reported only
\* when the computation raises.
C24_Recomputed ==
  \A id \in StreamIDs :
    (properties[id].success /\ streams[id].phase = "l") =>
       properties[id].basic = Computed(id)

\* C25: whenever influent_values is not empty, get_parameter('feedstock',
\* name) for a valid ADM1 component ID that has not been set returns success
\* with the value 0.0, in every state that tool calls reach.
C25_DefaultZero ==
  \A parameter_name \in ComponentIDs :
    (/\ ~IsEmpty(simulation_state.influent_values)
     /\ ~simulation_state.influent_values[parameter_name].has) =>
       get_parameter(simulation_state, "feedstock", parameter_name, <<>>)
         = [success |-> TRUE, value |-> PyNum(FZero)]

\* C26: each sim_results[i] that is not None was produced by a run with the
\* current Q, simulation_time, t_step, sim_params[i], influent_values and
\* kinetic settings, and every tool that has changed one of these with
\* success (set_parameter, set_flow_parameters, set_reactor_parameters,
\* describe_feedstock, describe_kinetics) leaves sim_results all None.
C26_NeverStale ==
  /\ \A i \in DOMAIN simulation_state.sim_results :
       simulation_state.sim_results[i] # None =>
          simulation_state.sim_results[i]
            = run_simulation(simulation_state, simulation_state.sim_params[i])
  /\ (/\ reply.tool \in {"set_parameter", "set_flow_parameters",
                         "set_reactor_parameters", "describe_feedstock",
                         "describe_kinetics"}
      /\ reply.success) =>
        \A i \in DOMAIN simulation_state.sim_results :
          simulation_state.sim_results[i] = None

====
